---- MODULE Spec2Model ----
(***************************************************************************)
(* A model of rendergitplus.py: the per-file classifier (decide_file,      *)
(* looks_binary, collect_files), the corpus serializer                     *)
(* (generate_cxml_text), the section loop of build_html, minify_code,      *)
(* slugify and build_git_tree.                                             *)
(*                                                                         *)
(* Strings are sequences of one-character strings, so that prefix tests,   *)
(* substring tests, suffix extraction, case folding and ordering are       *)
(* computed as Python computes them.                                       *)
(***************************************************************************)
EXTENDS Integers, Sequences, FiniteSets, TLC

VARIABLES
    d_in,      \* decide_file: the arguments of the call under examination
    d_out,     \* decide_file: what the call produced (a FileInfo or an exception)
    run,       \* the pipeline of main: collect_files, then the assembly
    m_in,      \* minify_code: the arguments and the environment of the call
    m_out,     \* minify_code: what the call produced
    s_in,      \* slugify: the argument
    s_out,     \* slugify: the result, and the result of slugifying it again
    t_in,      \* build_git_tree: the lines of ls_files, in two orders
    t_out      \* build_git_tree: the lines produced for each order

vars == <<d_in, d_out, run, m_in, m_out, s_in, s_out, t_in, t_out>>

Idle == [pc |-> "idle"]

-----------------------------------------------------------------------------
(* Characters.  AsciiOrder lists the alphabet in code-point order, so the   *)
(* position of a character orders it as its code point does.               *)

Digits == <<"0","1","2","3","4","5","6","7","8","9">>
UpperChars == <<"A","B","C","D","E","F","G","H","I","J","K","L","M",
                "N","O","P","Q","R","S","T","U","V","W","X","Y","Z">>
LowerChars == <<"a","b","c","d","e","f","g","h","i","j","k","l","m",
                "n","o","p","q","r","s","t","u","v","w","x","y","z">>
AsciiOrder == <<" ", "-", ".", "/">> \o Digits \o UpperChars \o <<"_">> \o LowerChars

Range(f) == {f[i] : i \in DOMAIN f}

CodeTable == [c \in Range(AsciiOrder) |-> CHOOSE i \in DOMAIN AsciiOrder : AsciiOrder[i] = c]

Code(c) == CodeTable[c]

\* str.lower() on one character
LowerTable ==
    [c \in Range(UpperChars) |-> LowerChars[CHOOSE i \in DOMAIN UpperChars : UpperChars[i] = c]]

LowerChar(c) == IF c \in DOMAIN LowerTable THEN LowerTable[c] ELSE c

\* str.lower()
Lower(s) == [i \in DOMAIN s |-> LowerChar(s[i])]

\* Python's str comparison a < b: lexicographic on code points
StrLess(a, b) ==
    \E k \in 1..(Len(b)) :
        /\ \A j \in 1..(k-1) : j <= Len(a) /\ a[j] = b[j]
        /\ Len(a) >= k - 1
        /\ (Len(a) = k - 1 \/ Code(a[k]) < Code(b[k]))

\* str.startswith
StartsWith(s, p) == Len(s) >= Len(p) /\ SubSeq(s, 1, Len(p)) = p

\* the `in` operator on strings: p occurs in s
Contains(s, p) ==
    \E i \in 1..(Len(s) - Len(p) + 1) : SubSeq(s, i, i + Len(p) - 1) = p

\* sorted(S) for a set of strings
RECURSIVE sorted(_)
sorted(S) ==
    IF S = {} THEN <<>>
    ELSE LET m == CHOOSE x \in S : \A y \in S \ {x} : StrLess(x, y)
         IN <<m>> \o sorted(S \ {m})

\* the last path component (pathlib's .name) of a slash-separated path
RECURSIVE Name(_)
Name(rel) ==
    IF \E i \in DOMAIN rel : rel[i] = "/"
    THEN Name(Tail(rel))
    ELSE rel

\* pathlib's .suffix: from the last dot of the name, unless that dot is the
\* first or the last character of the name
Suffix(rel) ==
    LET name == Name(rel)
        dots == {i \in DOMAIN name : name[i] = "."}
    IN IF dots = {} THEN <<>>
       ELSE LET i == CHOOSE k \in dots : \A j \in dots : j <= k
            IN IF 1 < i /\ i < Len(name) THEN SubSeq(name, i, Len(name)) ELSE <<>>

-----------------------------------------------------------------------------
(* Program constants.                                                       *)

MAX_DEFAULT_BYTES == 50 * 1024

BINARY_EXTENSIONS == {
      <<".","p","n","g">>, <<".","j","p","g">>, <<".","j","p","e","g">>,
      <<".","g","i","f">>, <<".","w","e","b","p">>, <<".","b","m","p">>,
      <<".","s","v","g">>, <<".","i","c","o">>, <<".","p","d","f">>,
      <<".","z","i","p">>, <<".","t","a","r">>, <<".","g","z">>,
      <<".","b","z","2">>, <<".","x","z">>, <<".","7","z">>,
      <<".","r","a","r">>, <<".","m","p","3">>, <<".","m","p","4">>,
      <<".","m","o","v">>, <<".","a","v","i">>, <<".","m","k","v">>,
      <<".","w","a","v">>, <<".","o","g","g">>, <<".","f","l","a","c">>,
      <<".","t","t","f">>, <<".","o","t","f">>, <<".","e","o","t">>,
      <<".","w","o","f","f">>, <<".","w","o","f","f","2">>, <<".","s","o">>,
      <<".","d","l","l">>, <<".","d","y","l","i","b">>,
      <<".","c","l","a","s","s">>, <<".","j","a","r">>, <<".","e","x","e">>,
      <<".","b","i","n">> }

MARKDOWN_EXTENSIONS == {
      <<".","m","d">>, <<".","m","a","r","k","d","o","w","n">>,
      <<".","m","d","o","w","n">>, <<".","m","k","d">>, <<".","m","k","d","n">> }

\* the number of bytes looks_binary reads
READ_CHUNK == 8192

-----------------------------------------------------------------------------
(* The disk, as one call sees it.  An entry says what each system call on   *)
(* the path does:                                                           *)
(*   is_file  "yes" | "no" | "PermissionError"   Path.is_file()             *)
(*   stat     "ok" | "FileNotFoundError" | "PermissionError"  Path.stat()   *)
(*   size     st_size when stat is "ok"                                     *)
(*   open     "ok" | "PermissionError" | "FileNotFoundError"  open("rb")    *)
(*   head     the first bytes of the file when open is "ok"                 *)

\* bytes.decode("utf-8") succeeds: ASCII bytes, or the two-byte sequence
\* 0xC3 0xA9; a stray lead or continuation byte fails
RECURSIVE Utf8Ok(_)
Utf8Ok(data) ==
    IF data = <<>> THEN TRUE
    ELSE IF data[1] < 128 THEN Utf8Ok(Tail(data))
    ELSE IF data[1] = 195 /\ Len(data) >= 2 /\ data[2] = 169
         THEN Utf8Ok(Tail(Tail(data)))
    ELSE FALSE

\* looks_binary(path): the extension, then the first bytes of the file
looks_binary(rel, e) ==
    IF Lower(Suffix(rel)) \in BINARY_EXTENSIONS THEN TRUE
    ELSE IF e.open # "ok" THEN TRUE
    ELSE LET data == SubSeq(e.head, 1, IF Len(e.head) < READ_CHUNK
                                       THEN Len(e.head) ELSE READ_CHUNK)
         IN IF 0 \in Range(data) THEN TRUE ELSE ~Utf8Ok(data)

FileInfo(rel, size, include, reason) ==
    [rel |-> rel, size |-> size, include |-> include, reason |-> reason]

Returned(info) == [raised |-> "none", info |-> info]
Raised(exc) == [raised |-> exc]

GitSegment == <<"/", ".", "g", "i", "t", "/">>
GitPrefix == <<".", "g", "i", "t", "/">>

\* rel lies under the .git directory, as line 134 tests it
UnderGit(rel) ==
    Contains(<<"/">> \o rel \o <<"/">>, GitSegment) \/ StartsWith(rel, GitPrefix)

\* a mutant of decide_file: the size test is >= instead of >
decide_file_ge(rel, e, max_bytes) ==
    IF e.stat \notin {"ok", "FileNotFoundError"} THEN Raised(e.stat)
    ELSE LET size == IF e.stat = "ok" THEN e.size ELSE 0
         IN IF UnderGit(rel) THEN Returned(FileInfo(rel, size, FALSE, "ignored"))
            ELSE IF size >= max_bytes
                 THEN Returned(FileInfo(rel, size, FALSE, "too_large"))
            ELSE IF looks_binary(rel, e)
                 THEN Returned(FileInfo(rel, size, FALSE, "binary"))
            ELSE Returned(FileInfo(rel, size, TRUE, "ok"))

\* a mutant of decide_file: the binary test comes before the .git and size tests
decide_file_binary_first(rel, e, max_bytes) ==
    IF e.stat \notin {"ok", "FileNotFoundError"} THEN Raised(e.stat)
    ELSE LET size == IF e.stat = "ok" THEN e.size ELSE 0
         IN IF looks_binary(rel, e)
            THEN Returned(FileInfo(rel, size, FALSE, "binary"))
            ELSE IF UnderGit(rel)
                 THEN Returned(FileInfo(rel, size, FALSE, "ignored"))
            ELSE IF size > max_bytes
                 THEN Returned(FileInfo(rel, size, FALSE, "too_large"))
            ELSE Returned(FileInfo(rel, size, TRUE, "ok"))

\* decide_file(path, repo_root, max_bytes), path = repo_root / rel.  stat()
\* failing with FileNotFoundError gives size 0; any other failure of stat()
\* is not caught and leaves the function.
decide_file(rel, e, max_bytes) ==
    IF e.stat \notin {"ok", "FileNotFoundError"} THEN Raised(e.stat)
    ELSE LET size == IF e.stat = "ok" THEN e.size ELSE 0
         IN IF UnderGit(rel) THEN Returned(FileInfo(rel, size, FALSE, "ignored"))
            ELSE IF size > max_bytes
                 THEN Returned(FileInfo(rel, size, FALSE, "too_large"))
            ELSE IF looks_binary(rel, e)
                 THEN Returned(FileInfo(rel, size, FALSE, "binary"))
            ELSE Returned(FileInfo(rel, size, TRUE, "ok"))

-----------------------------------------------------------------------------
(* decide_file as a function of its arguments and of what the disk does.    *)

\* the longest file head the model draws
MaxHead == 2

\* how far above the limit the largest drawn size lies (60000 - 51200 in the
\* scenario of the specification)
SizeSlack == 8800

Bytes == {0, 65, 169, 195}

RECURSIVE SeqsUpTo(_, _)
SeqsUpTo(S, n) ==
    IF n = 0 THEN {<<>>}
    ELSE LET shorter == SeqsUpTo(S, n - 1)
         IN shorter \cup {Append(q, x) : q \in shorter, x \in S}

Heads == SeqsUpTo(Bytes, MaxHead)

MaxBytesChoices == {0, 1, MAX_DEFAULT_BYTES}

Sizes(max_bytes) ==
    {0, max_bytes, max_bytes + 1, max_bytes + SizeSlack}
        \cup (IF max_bytes > 0 THEN {max_bytes - 1} ELSE {})

Entry(is_file, stat, size, open, head) ==
    [is_file |-> is_file, stat |-> stat, size |-> size, open |-> open, head |-> head]

\* a regular file that can be opened; its head is the whole file when the
\* file is shorter than MaxHead
ReadableFiles(max_bytes) ==
    {Entry("yes", "ok", p[1], "ok", p[2]) :
        p \in {q \in Sizes(max_bytes) \X Heads :
                    Len(q[2]) = (IF q[1] < MaxHead THEN q[1] ELSE MaxHead)}}

\* a regular file that cannot be opened (permission denied)
UnreadableFiles(max_bytes) ==
    {Entry("yes", "ok", n, "PermissionError", <<>>) : n \in Sizes(max_bytes)}

\* a path that does not exist
MissingFile == Entry("no", "FileNotFoundError", 0, "FileNotFoundError", <<>>)

\* a path below a directory that may not be searched: stat() fails with EACCES
Unsearchable == Entry("PermissionError", "PermissionError", 0, "PermissionError", <<>>)

DecideEntries(max_bytes) ==
    ReadableFiles(max_bytes) \cup UnreadableFiles(max_bytes)
        \cup {MissingFile, Unsearchable}

P_README == <<"R","E","A","D","M","E",".","m","d">>
P_SRC_A_PY == <<"s","r","c","/","a",".","p","y">>
P_GIT_CONFIG == <<".","g","i","t","/","c","o","n","f","i","g">>
P_BIG_BIN == <<"b","i","g",".","b","i","n">>
P_SUB_GIT_X == <<"s","u","b","/",".","g","i","t","/","x">>
P_GITIGNORE == <<".","g","i","t","i","g","n","o","r","e">>
P_A_GIT_X == <<"a",".","g","i","t","/","x">>
P_X_GIT == <<"x","/",".","g","i","t">>
P_LOGO_PNG == <<"l","o","g","o",".","P","N","G">>
P_DATA_JSON == <<"d","a","t","a",".","j","s","o","n">>
P_GIT_PACK == <<".","g","i","t","/","p",".","b","i","n">>

DecidePaths ==
    {P_README, P_SRC_A_PY, P_GIT_CONFIG, P_BIG_BIN, P_SUB_GIT_X, P_GITIGNORE,
     P_A_GIT_X, P_X_GIT, P_LOGO_PNG, P_DATA_JSON, P_GIT_PACK}

DecideInit ==
    /\ d_in \in {[rel |-> r, max_bytes |-> m, e |-> e] :
                    r \in DecidePaths, m \in MaxBytesChoices,
                    e \in UNION {DecideEntries(mm) : mm \in MaxBytesChoices}}
    /\ d_in.e \in DecideEntries(d_in.max_bytes)
    /\ d_out = Idle
    /\ run = Idle /\ m_in = Idle /\ m_out = Idle
    /\ s_in = <<>> /\ s_out = Idle /\ t_in = Idle /\ t_out = Idle

\* one call decide_file(repo_root / rel, repo_root, max_bytes)
Decide ==
    /\ d_out.pc = "idle"
    /\ d_in # Idle
    /\ LET r == decide_file(d_in.rel, d_in.e, d_in.max_bytes)
       IN d_out' = IF r.raised = "none"
                   THEN [pc |-> "returned", info |-> r.info]
                   ELSE [pc |-> "raised", exc |-> r.raised]
    /\ UNCHANGED <<d_in, run, m_in, m_out, s_in, s_out, t_in, t_out>>

DecideNext == Decide

SpecDecide ==
    DecideInit /\ [][DecideNext]_vars

\* str.split("/")
RECURSIVE Split(_)
Split(rel) ==
    IF \E i \in DOMAIN rel : rel[i] = "/"
    THEN LET i == CHOOSE k \in DOMAIN rel :
                      rel[k] = "/" /\ \A j \in 1..(k-1) : rel[j] # "/"
         IN <<SubSeq(rel, 1, i - 1)>> \o Split(SubSeq(rel, i + 1, Len(rel)))
    ELSE <<rel>>

\* "under the .git metadata directory": a segment of the path is named .git,
\* which is the leading segment for the prefix ".git/" and an inner one for
\* an embedded "/.git/"
InGitDirectory(rel) == <<".", "g", "i", "t">> \in Range(Split(rel))

\* C2: when decide_file returns, the first matching rule in the order
\* ignored, too_large, binary, included decides: a path in the .git directory
\* is ignored whatever its size and content, a path that is not ignored and
\* is larger than max_bytes is too_large whatever its content, a path that is
\* neither and looks binary is binary, and only the rest is included.
C2_Precedence ==
    d_out.pc = "returned" =>
        LET i == d_out.info
            big == i.size > d_in.max_bytes
            bin == looks_binary(d_in.rel, d_in.e)
            git == InGitDirectory(d_in.rel)
        IN /\ git => i.reason = "ignored"
           /\ (~git /\ big) => i.reason = "too_large"
           /\ (~git /\ ~big /\ bin) => i.reason = "binary"
           /\ (~git /\ ~big /\ ~bin) => i.reason = "ok"
           /\ i.include <=> i.reason = "ok"

\* a path in the .git directory that is oversized and binary-looking was ignored
C2_Witness ==
    /\ d_out.pc = "returned"
    /\ InGitDirectory(d_in.rel)
    /\ d_out.info.size > d_in.max_bytes
    /\ looks_binary(d_in.rel, d_in.e)
    /\ d_out.info.reason = "ignored"

\* C3: for a file outside .git that does not look binary, too_large holds
\* exactly when size > max_bytes: size = max_bytes is included and
\* size = max_bytes + 1 is too_large, for every max_bytes >= 0.
C3_Threshold ==
    (/\ d_out.pc = "returned"
     /\ ~InGitDirectory(d_in.rel)
     /\ ~looks_binary(d_in.rel, d_in.e)) =>
        LET i == d_out.info
        IN /\ d_in.max_bytes >= 0
           /\ (i.reason = "too_large") <=> (i.size > d_in.max_bytes)
           /\ (i.size = d_in.max_bytes) => (i.include /\ i.reason = "ok")
           /\ (i.size = d_in.max_bytes + 1) => (~i.include /\ i.reason = "too_large")

\* a text file of exactly max_bytes bytes, max_bytes > 0, was included
C3_Witness ==
    /\ d_out.pc = "returned"
    /\ ~InGitDirectory(d_in.rel)
    /\ ~looks_binary(d_in.rel, d_in.e)
    /\ d_in.e.stat = "ok" /\ d_in.e.size = d_in.max_bytes /\ d_in.max_bytes > 0
    /\ d_out.info.include

\* C4: no exception escapes decide_file: whatever stat() and open() do, the
\* call returns a FileInfo, with size 0 when stat() failed and with reason
\* binary when the file could not be opened.
C4_NoExceptionEscapes ==
    d_out.pc # "idle" =>
        /\ d_out.pc = "returned"
        /\ d_in.e.stat # "ok" => d_out.info.size = 0
        /\ (d_in.e.open # "ok" /\ d_out.info.reason \notin {"ignored", "too_large"})
              => d_out.info.reason = "binary"

-----------------------------------------------------------------------------
(* minify_code.  The optional modules are the environment of the call:      *)
(* each is "missing" (the import failed, the name is None), "ok", or        *)
(* "raises" (its entry point raises an Exception on this text).             *)

MINIFIABLE_EXTENSIONS ==
    ( <<".","p","y">> :> "python" ) @@ ( <<".","j","s","o","n">> :> "json" ) @@
    ( <<".","j","s">> :> "javascript" ) @@ ( <<".","c","s","s">> :> "css" ) @@
    ( <<".","h","t","m","l">> :> "html" ) @@ ( <<".","h","t","m">> :> "html" )

\* the text a third-party minifier returns for a text: not modelled further
\* than being that minifier's output for that text (the module's name,
\* followed by the text)
MinifierOutput(module, text) == <<module>> \o text

(* json.loads and json.dumps on texts over the characters [ ] , 0 1 and    *)
(* the space: numbers and arrays.                                           *)

JsonFail == [ok |-> FALSE]
JsonOk(val, rest) == [ok |-> TRUE, val |-> val, rest |-> rest]

RECURSIVE SkipWs(_)
SkipWs(s) == IF s # <<>> /\ s[1] = " " THEN SkipWs(Tail(s)) ELSE s

\* the digits at the front of s
RECURSIVE TakeDigits(_)
TakeDigits(s) ==
    IF s # <<>> /\ s[1] \in {"0", "1"} THEN <<s[1]>> \o TakeDigits(Tail(s)) ELSE <<>>

\* the decoder's scan of one value at the front of s
RECURSIVE ParseValue(_)
RECURSIVE ParseItems(_, _)
ParseValue(s) ==
    LET t == SkipWs(s)
    IN IF t = <<>> THEN JsonFail
       ELSE IF t[1] = "0" THEN JsonOk([t |-> "int", digits |-> <<"0">>], Tail(t))
       ELSE IF t[1] = "1"
            THEN LET ds == TakeDigits(t)
                 IN JsonOk([t |-> "int", digits |-> ds], SubSeq(t, Len(ds) + 1, Len(t)))
       ELSE IF t[1] = "["
            THEN LET u == SkipWs(Tail(t))
                 IN IF u # <<>> /\ u[1] = "]"
                    THEN JsonOk([t |-> "list", items |-> <<>>], Tail(u))
                    ELSE ParseItems(u, <<>>)
       ELSE JsonFail

ParseItems(s, acc) ==
    LET r == ParseValue(s)
    IN IF ~r.ok THEN JsonFail
       ELSE LET t == SkipWs(r.rest)
            IN IF t = <<>> THEN JsonFail
               ELSE IF t[1] = ","
                    THEN ParseItems(Tail(t), Append(acc, r.val))
               ELSE IF t[1] = "]"
                    THEN JsonOk([t |-> "list", items |-> Append(acc, r.val)], Tail(t))
               ELSE JsonFail

\* json.loads(text): the value, or JSONDecodeError (ok = FALSE)
json_loads(text) ==
    LET r == ParseValue(text)
    IN IF r.ok /\ SkipWs(r.rest) = <<>> THEN r ELSE JsonFail

\* json.dumps(value, separators=(',', ':'))
RECURSIVE json_dumps(_)
RECURSIVE DumpItems(_)
json_dumps(v) ==
    IF v.t = "int" THEN v.digits
    ELSE <<"[">> \o DumpItems(v.items) \o <<"]">>

DumpItems(items) ==
    IF items = <<>> THEN <<>>
    ELSE IF Len(items) = 1 THEN json_dumps(items[1])
    ELSE json_dumps(items[1]) \o <<",">> \o DumpItems(Tail(items))

\* lines 105-119, the body of the try statement: the value returned, an
\* exception raised inside it, or "fell through" (no branch returned)
FellThrough == [raised |-> "none", fell |-> TRUE]
Value(v) == [raised |-> "none", fell |-> FALSE, value |-> v]
Throws(exc) == [raised |-> exc, fell |-> FALSE]

Call(module, status, text) ==
    IF status = "raises" THEN Throws("Exception") ELSE Value(MinifierOutput(module, text))

minify_try(text, minify_type, env) ==
    IF minify_type = "python" /\ env.python_minifier # "missing"
    THEN Call("python_minifier", env.python_minifier, text)
    ELSE IF minify_type = "javascript" /\ env.rjsmin # "missing"
    THEN Call("rjsmin", env.rjsmin, text)
    ELSE IF minify_type = "css" /\ env.rcssmin # "missing"
    THEN Call("rcssmin", env.rcssmin, text)
    ELSE IF minify_type = "html" /\ env.htmlmin # "missing"
    THEN Call("htmlmin", env.htmlmin, text)
    ELSE IF minify_type = "json"
    THEN LET parsed == json_loads(text)
         IN IF parsed.ok THEN Value(json_dumps(parsed.val)) ELSE Value(text)
    ELSE FellThrough

\* a mutant of minify_code: no try/except around the minifiers
minify_code_uncaught(text, ext, env) ==
    LET minify_type == IF Lower(ext) \in DOMAIN MINIFIABLE_EXTENSIONS
                       THEN MINIFIABLE_EXTENSIONS[Lower(ext)] ELSE "None"
        r == minify_try(text, minify_type, env)
    IN IF r.raised # "none" THEN Raised(r.raised)
       ELSE IF r.fell THEN [raised |-> "none", value |-> text]
       ELSE [raised |-> "none", value |-> r.value]

\* minify_code(text, ext): `except Exception: pass` and the final return
minify_code(text, ext, env) ==
    LET minify_type == IF Lower(ext) \in DOMAIN MINIFIABLE_EXTENSIONS
                       THEN MINIFIABLE_EXTENSIONS[Lower(ext)] ELSE "None"
        r == minify_try(text, minify_type, env)
    IN IF r.raised # "none" \/ r.fell THEN [raised |-> "none", value |-> text]
       ELSE [raised |-> "none", value |-> r.value]

\* the longest text the model draws
MaxText == 3

JsonChars == {"[", "]", ",", "0", "1", " "}

Texts == SeqsUpTo(JsonChars, MaxText)

E_PY == <<".","p","y">>
E_PY_UPPER == <<".","P","Y">>
E_JSON == <<".","j","s","o","n">>
E_JS == <<".","j","s">>
E_CSS == <<".","c","s","s">>
E_HTML == <<".","h","t","m","l">>
E_HTM == <<".","h","t","m">>
E_TXT == <<".","t","x","t">>
E_MD == <<".","m","d">>

MinifyExts == {E_PY, E_PY_UPPER, E_JSON, E_JS, E_CSS, E_HTML, E_HTM, E_TXT, E_MD, <<>>}

Modules == {"python_minifier", "rjsmin", "rcssmin", "htmlmin"}

\* every module in the same state, or one module in another state than the rest
Envs ==
    {[m \in Modules |-> st] : st \in {"ok", "missing", "raises"}}
        \cup {[m \in Modules |-> IF m = one THEN "ok" ELSE "missing"] : one \in Modules}
        \cup {[m \in Modules |-> IF m = one THEN "raises" ELSE "ok"] : one \in Modules}
        \cup {[m \in Modules |-> IF m = one THEN "missing" ELSE "ok"] : one \in Modules}

MinifyInit ==
    /\ m_in \in [text : Texts, ext : MinifyExts, env : Envs]
    /\ m_out = Idle
    /\ d_in = Idle /\ d_out = Idle /\ run = Idle
    /\ s_in = <<>> /\ s_out = Idle /\ t_in = Idle /\ t_out = Idle

\* one call minify_code(text, ext)
Minify ==
    /\ m_out.pc = "idle"
    /\ m_in # Idle
    /\ LET r == minify_code(m_in.text, m_in.ext, m_in.env)
       IN m_out' = IF r.raised = "none"
                   THEN [pc |-> "returned", value |-> r.value]
                   ELSE [pc |-> "raised", exc |-> r.raised]
    /\ UNCHANGED <<d_in, d_out, run, m_in, s_in, s_out, t_in, t_out>>

MinifyNext == Minify

SpecMinify ==
    MinifyInit /\ [][MinifyNext]_vars

\* the module responsible for an extension, "json" for the built-in one, and
\* "none" outside the supported set; extensions match without regard to case
StrategyFor(ext) ==
    LET x == Lower(ext)
    IN CASE x = E_PY -> "python_minifier"
         [] x = E_JS -> "rjsmin"
         [] x = E_CSS -> "rcssmin"
         [] x \in {E_HTML, E_HTM} -> "htmlmin"
         [] x = E_JSON -> "json"
         [] OTHER -> "none"

\* C8: minify_code never raises and returns either the complete output of
\* the one strategy mapped to the extension or the text unchanged; it
\* returns the text unchanged for an extension outside the supported set,
\* when the responsible module is missing, when that module raises, and
\* when .json content is not valid JSON.
C8_MinifyOrUnchanged ==
    m_out.pc # "idle" =>
        LET st == StrategyFor(m_in.ext)
            text == m_in.text
        IN /\ m_out.pc = "returned"
           /\ \/ m_out.value = text
              \/ st \in Modules /\ m_in.env[st] = "ok"
                   /\ m_out.value = MinifierOutput(st, text)
              \/ st = "json" /\ json_loads(text).ok
                   /\ m_out.value = json_dumps(json_loads(text).val)
           /\ st = "none" => m_out.value = text
           /\ (st \in Modules /\ m_in.env[st] \in {"missing", "raises"})
                 => m_out.value = text
           /\ (st = "json" /\ ~json_loads(text).ok) => m_out.value = text

\* the python minifier raised on a .py text, whose text came back unchanged
C8_Witness ==
    /\ m_out.pc = "returned"
    /\ Lower(m_in.ext) = E_PY
    /\ m_in.env["python_minifier"] = "raises"
    /\ m_out.value = m_in.text

-----------------------------------------------------------------------------
(* slugify.                                                                 *)

\* a letter outside ASCII, for which str.isalnum() is true as well
NonAsciiLetters == {"é"}

\* str.isalnum() on one character
isalnum(ch) ==
    ch \in Range(Digits) \cup Range(UpperChars) \cup Range(LowerChars)
              \cup NonAsciiLetters

\* a mutant of slugify: a run of replaced characters becomes one dash
RECURSIVE slugify_collapsing(_)
slugify_collapsing(path_str) ==
    IF path_str = <<>> THEN <<>>
    ELSE LET ch == Head(path_str)
             rest == slugify_collapsing(Tail(path_str))
         IN IF isalnum(ch) \/ ch \in {"-", "_"} THEN <<ch>> \o rest
            ELSE IF rest # <<>> /\ rest[1] = "-" THEN rest
            ELSE <<"-">> \o rest

\* slugify(path_str): the loop of lines 210-214, one character at a time
RECURSIVE slugify(_)
slugify(path_str) ==
    IF path_str = <<>> THEN <<>>
    ELSE LET ch == Head(path_str)
         IN (IF isalnum(ch) \/ ch \in {"-", "_"} THEN <<ch>> ELSE <<"-">>)
                \o slugify(Tail(path_str))

\* the longest string the model slugifies
MaxSlug == 3

SlugChars == {"a", "Z", "7", "é", "-", "_", "/", ".", " "}

SlugInit ==
    /\ s_in \in SeqsUpTo(SlugChars, MaxSlug)
    /\ s_out = Idle
    /\ d_in = Idle /\ d_out = Idle /\ run = Idle
    /\ m_in = Idle /\ m_out = Idle /\ t_in = Idle /\ t_out = Idle

\* slugify(s), and slugify of the result
Slugify ==
    /\ s_out.pc = "idle"
    /\ s_out' = [pc |-> "done", once |-> slugify(s_in),
                 twice |-> slugify(slugify(s_in))]
    /\ UNCHANGED <<d_in, d_out, run, m_in, m_out, s_in, t_in, t_out>>

SlugNext == Slugify

SpecSlug == SlugInit /\ [][SlugNext]_vars

\* the characters of SlugChars that are letters, digits, dash or underscore
KeptChars == {"a", "Z", "7", "é", "-", "_"}

\* C9: slugify(slugify(s)) = slugify(s); the output is as long as s, keeps
\* every alphanumeric character, '-' and '_' as it is, and has exactly one
\* '-' in the place of every other character.
C9_SlugifyIdempotent ==
    s_out.pc = "done" =>
        /\ s_out.twice = s_out.once
        /\ Len(s_out.once) = Len(s_in)
        /\ \A i \in 1..Len(s_in) :
              s_out.once[i] = (IF s_in[i] \in KeptChars THEN s_in[i] ELSE "-")

\* a string with two adjacent replaced characters and an upper-case letter
\* was slugified
C9_Witness ==
    /\ s_out.pc = "done"
    /\ \E i \in 1..(Len(s_in) - 1) : s_in[i] \notin KeptChars /\ s_in[i+1] \notin KeptChars
    /\ "Z" \in Range(s_in)
    /\ s_out.once # s_in

-----------------------------------------------------------------------------
(* build_git_tree.  A dict is the sequence of its items in insertion order; *)
(* an item is [name, leaf, sub]: leaf for the value None, sub for the value *)
(* that is a dict.                                                          *)

Leaf(name) == [name |-> name, leaf |-> TRUE, sub |-> <<>>]
Dir(name, sub) == [name |-> name, leaf |-> FALSE, sub |-> sub]

\* lines 169-173 for one path: setdefault along parts[:-1], then
\* setdefault(parts[-1], None).  ok = FALSE is the AttributeError of calling
\* setdefault on None, when a directory segment names an existing leaf.
RECURSIVE Insert(_, _)
Insert(node, parts) ==
    LET name == Head(parts)
        idx == {i \in DOMAIN node : node[i].name = name}
    IN IF Len(parts) = 1
       THEN [ok |-> TRUE, node |-> IF idx # {} THEN node ELSE Append(node, Leaf(name))]
       ELSE IF idx = {}
            THEN LET r == Insert(<<>>, Tail(parts))
                 IN [ok |-> r.ok, node |-> Append(node, Dir(name, r.node))]
       ELSE LET i == CHOOSE k \in idx : TRUE
            IN IF node[i].leaf THEN [ok |-> FALSE, node |-> node]
               ELSE LET r == Insert(node[i].sub, Tail(parts))
                    IN [ok |-> r.ok, node |-> [node EXCEPT ![i].sub = r.node]]

\* the loop of line 168 over the lines of ls_files
RECURSIVE BuildDict(_, _)
BuildDict(tree, tracked) ==
    IF tracked = <<>> THEN [ok |-> TRUE, node |-> tree]
    ELSE LET r == Insert(tree, Split(Head(tracked)))
         IN IF r.ok THEN BuildDict(r.node, Tail(tracked)) ELSE r

\* a mutant of KeyLess: the names are compared as they are, not lower-cased
KeyLessCaseSensitive(a, b) ==
    \/ ~a.leaf /\ b.leaf
    \/ a.leaf = b.leaf /\ StrLess(a.name, b.name)

\* the sort key of line 178, (subtree is None, name.lower()), compared as
\* Python compares tuples
KeyLess(a, b) ==
    \/ ~a.leaf /\ b.leaf
    \/ a.leaf = b.leaf /\ StrLess(Lower(a.name), Lower(b.name))

\* sorted(items, key=...): stable, so items with equal keys keep their order
RECURSIVE StableSort(_)
StableSort(items) ==
    IF items = <<>> THEN <<>>
    ELSE LET n == Len(items)
             front == StableSort(SubSeq(items, 1, n - 1))
             x == items[n]
             \* x goes behind every item whose key is not greater than its own
             k == Cardinality({i \in DOMAIN front : ~KeyLess(x, front[i])})
         IN SubSeq(front, 1, k) \o <<x>> \o SubSeq(front, k + 1, Len(front))

Line(prefix, branch, name) == [prefix |-> prefix, branch |-> branch, name |-> name]

\* the text of a line, f"{prefix}{branch}{name}", is its three parts in a row;
\* prefix is kept as the sequence of the four-character extensions it is made of
\* (the box-drawing characters U+2514, U+251C, U+2500 and U+2502 are
\* written L, +, - and |)
BRANCH_LAST == "L-- "
BRANCH_MORE == "+-- "
EXTEND_LAST == "    "
EXTEND_MORE == "|   "

\* walk(node, prefix), lines 177-185: the lines it appends
RECURSIVE walk(_, _)
RECURSIVE WalkItems(_, _, _)
walk(node, prefix) == WalkItems(StableSort(node), 1, prefix)

WalkItems(items, i, prefix) ==
    IF i > Len(items) THEN <<>>
    ELSE LET last == (i = Len(items))
             branch == IF last THEN BRANCH_LAST ELSE BRANCH_MORE
             here == <<Line(prefix, branch, items[i].name)>>
             below == IF ~items[i].leaf
                      THEN walk(items[i].sub,
                                Append(prefix, IF last THEN EXTEND_LAST ELSE EXTEND_MORE))
                      ELSE <<>>
         IN here \o below \o WalkItems(items, i + 1, prefix)

\* build_git_tree: the lines of the text, the first being repo_root.name
build_git_tree(root_name, tracked) ==
    LET r == BuildDict(<<>>, tracked)
    IN IF ~r.ok THEN Raised("AttributeError")
       ELSE [raised |-> "none",
             lines |-> <<Line(<<>>, "", root_name)>> \o walk(r.node, <<>>)]

\* the largest number of tracked paths the model renders as a tree
MaxTreePaths == 3

T_a == <<"a">>
T_A == <<"A">>
T_Z == <<"Z">>
T_b_x == <<"b","/","x">>
T_B_x == <<"B","/","x">>
T_b_X == <<"b","/","X">>
T_m_n_o == <<"m","/","n","/","o">>

\* no path of the universe is a directory of another: git tracks no path both
\* as a file and as a directory
TreePaths == {T_a, T_A, T_Z, T_b_x, T_B_x, T_b_X, T_m_n_o}

ROOT_NAME == <<"r","e","p","o">>

\* the orders in which the paths of S can be listed
Orders(S) ==
    {q \in [1..Cardinality(S) -> S] : \A i, j \in 1..Cardinality(S) : q[i] = q[j] => i = j}

\* first is the order of ls_files (the index is sorted by path), second is
\* an arbitrary order of the same paths
TreeInit ==
    /\ t_in \in UNION {{[first |-> sorted(S), second |-> q] : q \in Orders(S)} :
                          S \in {X \in SUBSET TreePaths : Cardinality(X) <= MaxTreePaths}}
    /\ t_out = Idle
    /\ d_in = Idle /\ d_out = Idle /\ run = Idle
    /\ m_in = Idle /\ m_out = Idle /\ s_in = <<>> /\ s_out = Idle

\* build_git_tree on the listing of ls_files
RenderFirst ==
    /\ t_out.pc = "idle"
    /\ t_in # Idle
    /\ LET r == build_git_tree(ROOT_NAME, t_in.first)
       IN t_out' = IF r.raised = "none" THEN [pc |-> "first", first |-> r.lines]
                   ELSE [pc |-> "raised", exc |-> r.raised]
    /\ UNCHANGED <<d_in, d_out, run, m_in, m_out, s_in, s_out, t_in>>

\* build_git_tree again, the same paths listed in the second order
RenderSecond ==
    /\ t_out.pc = "first"
    /\ LET r == build_git_tree(ROOT_NAME, t_in.second)
       IN t_out' = IF r.raised = "none"
                   THEN [pc |-> "both", first |-> t_out.first, second |-> r.lines]
                   ELSE [pc |-> "raised", exc |-> r.raised]
    /\ UNCHANGED <<d_in, d_out, run, m_in, m_out, s_in, s_out, t_in>>

TreeNext == RenderFirst \/ RenderSecond

SpecTree == TreeInit /\ [][TreeNext]_vars

(* What the claim says of a rendered text, read off its lines (without the  *)
(* line of the root name).                                                  *)

Depth(l) == Len(l.prefix)

\* lines i < j are entries of the same directory
Siblings(L, i, j) ==
    /\ i < j /\ Depth(L[i]) = Depth(L[j])
    /\ \A k \in (i+1)..(j-1) : Depth(L[k]) >= Depth(L[i])

\* line i is a directory: its entries follow it, one level deeper
IsDirLine(L, i) == i < Len(L) /\ Depth(L[i+1]) = Depth(L[i]) + 1

\* at every level the directories come before the files, and each group is in
\* case-insensitive alphabetical order
DirsFirstAlphabetical(L) ==
    \A i, j \in DOMAIN L :
        Siblings(L, i, j) =>
            /\ IsDirLine(L, j) => IsDirLine(L, i)
            /\ (IsDirLine(L, i) <=> IsDirLine(L, j))
                  => ~StrLess(Lower(L[j].name), Lower(L[i].name))

\* the last entry of a directory has the corner connector, the others the tee
Connectors(L) ==
    \A i \in DOMAIN L :
        L[i].branch = IF \E j \in DOMAIN L : Siblings(L, i, j)
                      THEN BRANCH_MORE ELSE BRANCH_LAST

\* the path a line stands for: the names of its ancestors and its own
PathOfLine(L, i) ==
    LET seg(d) == L[CHOOSE k \in 1..i :
                        /\ Depth(L[k]) = d
                        /\ \A m \in (k+1)..i : Depth(L[m]) > d].name
        join[d \in 0..Depth(L[i])] ==
            IF d = 0 THEN seg(0) ELSE join[d-1] \o <<"/">> \o seg(d)
    IN join[Depth(L[i])]

\* the files of the text are exactly the tracked paths, each listed once
ListsExactly(L, S) ==
    LET files == {i \in DOMAIN L : ~IsDirLine(L, i)}
    IN /\ {PathOfLine(L, i) : i \in files} = S
       /\ Cardinality(files) = Cardinality(S)

WellFormedTree(lines, S) ==
    /\ lines[1] = Line(<<>>, "", ROOT_NAME)
    /\ DirsFirstAlphabetical(Tail(lines))
    /\ Connectors(Tail(lines))
    /\ ListsExactly(Tail(lines), S)

\* two entries of one directory, both files or both directories, whose names
\* differ only in case
CaseTie(p, q) ==
    LET sp == Split(p)
        sq == Split(q)
    IN \E k \in 1..Len(sp) :
          /\ k <= Len(sq)
          /\ SubSeq(sp, 1, k - 1) = SubSeq(sq, 1, k - 1)
          /\ sp[k] # sq[k] /\ Lower(sp[k]) = Lower(sq[k])
          /\ (k = Len(sp)) <=> (k = Len(sq))

TreeSet == Range(t_in.first)

-----------------------------------------------------------------------------
(* The run of main from the scan on: collect_files, then                    *)
(* generate_cxml_text (with --llm) or build_html.                           *)

\* a mutant of collect_files' loop: a path that is no regular file is
\* classified as well
RECURSIVE collect_loop_unfiltered(_, _, _, _)
collect_loop_unfiltered(todo, disk, max_bytes, infos) ==
    IF todo = <<>> THEN [raised |-> "none", infos |-> infos]
    ELSE LET rel == Head(todo)
             e == disk[rel]
         IN IF e.is_file \notin {"yes", "no"} THEN Raised(e.is_file)
            ELSE LET r == decide_file(rel, e, max_bytes)
                 IN IF r.raised # "none" THEN r
                    ELSE collect_loop_unfiltered(Tail(todo), disk, max_bytes,
                                                 Append(infos, r.info))

\* the loop of lines 151-154; an exception of is_file() or of decide_file
\* leaves the loop
RECURSIVE collect_loop(_, _, _, _)
collect_loop(todo, disk, max_bytes, infos) ==
    IF todo = <<>> THEN [raised |-> "none", infos |-> infos]
    ELSE LET rel == Head(todo)
             e == disk[rel]
         IN IF e.is_file \notin {"yes", "no"} THEN Raised(e.is_file)
            ELSE IF e.is_file = "yes"
                 THEN LET r == decide_file(rel, e, max_bytes)
                      IN IF r.raised # "none" THEN r
                         ELSE collect_loop(Tail(todo), disk, max_bytes,
                                           Append(infos, r.info))
            ELSE collect_loop(Tail(todo), disk, max_bytes, infos)

\* collect_files(repo_root, max_bytes): tracked is the set get_tracked_files
\* returns, disk what the file system does for each of its paths
collect_files(tracked, disk, max_bytes) ==
    collect_loop(sorted(tracked), disk, max_bytes, <<>>)

\* [i for i in infos if i.decision.include]
Rendered(infos) == SelectSeq(infos, LAMBDA i : i.include)

CxmlLine(tag, index, body) == [tag |-> tag, index |-> index, body |-> body]

\* read_text(path), then minify_code when minify is set: lines 229-233.
\* o says what the read does, which text it gives and in which state the
\* minifier modules are.
CxmlText(r) ==
    IF r.raised # "none" THEN r ELSE [raised |-> "none", text |-> r.value]

CxmlTry(info, minify, o) ==
    IF o.read # "ok" THEN Raised(o.read)
    ELSE IF minify
         THEN CxmlText(minify_code(o.text, Suffix(info.rel), o.env))
    ELSE [raised |-> "none", text |-> o.text]

\* a mutant of CxmlContent: no except clause, a failure leaves the function
CxmlContentUncaught(info, minify, o) == CxmlTry(info, minify, o)

\* the except clause of lines 234-235, r being what the try block did
CxmlExcept(r) ==
    IF r.raised # "none"
    THEN [raised |-> "none", text |-> <<"Failed to read: ", r.raised>>]
    ELSE r

\* the try statement of lines 228-235: the content line of one document
CxmlContent(info, minify, o) == CxmlExcept(CxmlTry(info, minify, o))

\* a mutant of CxmlFirstIndex: enumerate(rendered) without the start value
CxmlFirstIndexZero == 1 - 1

\* the start value of enumerate(rendered, 1)
CxmlFirstIndex == 1

\* one pass of the loop of lines 223-238: the lines of the document of the
\* record i, c being its content and rest what the later passes do
CxmlDocument(index, i, c, rest) ==
    IF c.raised # "none" THEN c
    ELSE IF rest.raised # "none" THEN rest
    ELSE [raised |-> "none",
          lines |-> << CxmlLine("<document index>", index, <<>>),
                       CxmlLine("<source>", 0, i.rel),
                       CxmlLine("<document_content>", 0, <<>>),
                       CxmlLine("text", 0, c.text),
                       CxmlLine("</document_content>", 0, <<>>),
                       CxmlLine("</document>", 0, <<>>) >>
                    \o rest.lines]

\* the loop of lines 223-238 from the document numbered index on
RECURSIVE CxmlDocuments(_, _, _, _)
CxmlDocuments(rendered, index, minify, reads) ==
    IF rendered = <<>> THEN [raised |-> "none", lines |-> <<>>]
    ELSE CxmlDocument(index, Head(rendered),
                      CxmlContent(Head(rendered), minify, reads[Head(rendered).rel]),
                      CxmlDocuments(Tail(rendered), index + 1, minify, reads))

\* lines 220 and 239: the wrapping element around the documents
CxmlWrap(docs) ==
    IF docs.raised # "none" THEN docs
    ELSE [raised |-> "none",
          lines |-> <<CxmlLine("<documents>", 0, <<>>)>> \o docs.lines
                       \o <<CxmlLine("</documents>", 0, <<>>)>>]

\* generate_cxml_text(infos, repo_dir, minify): the lines it joins
generate_cxml_text(infos, minify, reads) ==
    CxmlWrap(CxmlDocuments(Rendered(infos), CxmlFirstIndex, minify, reads))


\* the extensions of the model's paths for which get_lexer_for_filename finds
\* a lexer; for the others highlight_code falls back to TextLexer
LexerExts == {E_PY, E_JSON, E_MD}

\* highlight_code(text, filename, formatter), lines 199-204
highlight_code(text, rel, o) ==
    LET lexer == IF Lower(Suffix(rel)) \in LexerExts THEN "by_filename" ELSE "TextLexer"
    IN IF o.highlight # "ok" THEN Raised(o.highlight)
       ELSE [raised |-> "none", html |-> [kind |-> "highlight", lexer |-> lexer, text |-> text]]

\* lines 276-285: read the file and highlight it
SectionTry(info, o) ==
    IF o.read # "ok" THEN Raised(o.read)
    ELSE IF Lower(Suffix(info.rel)) \in MARKDOWN_EXTENSIONS
         THEN IF o.highlight # "ok" THEN Raised(o.highlight)
              ELSE [raised |-> "none",
                    html |-> [kind |-> "highlight", lexer |-> "MarkdownLexer",
                              text |-> o.text]]
    ELSE highlight_code(o.text, info.rel, o)

\* a mutant of SectionBody: no except clause, a failure leaves the function
SectionBodyUncaught(info, o) == SectionTry(info, o)

\* the except clause of lines 286-287, r being what the try block did
SectionExcept(r) ==
    IF r.raised # "none"
    THEN [raised |-> "none",
          html |-> [kind |-> "error", lexer |-> "",
                    text |-> <<"Failed to render: ", r.raised>>]]
    ELSE r

\* the try statement of lines 275-287: the body of one section
SectionBody(info, o) == SectionExcept(SectionTry(info, o))

\* one pass of the loop of lines 272-294: the section of the record i, b
\* being its body and rest what the later passes do
Section(i, b, rest) ==
    IF b.raised # "none" THEN b
    ELSE IF rest.raised # "none" THEN rest
    ELSE [raised |-> "none",
          sections |-> <<[anchor |-> slugify(i.rel), rel |-> i.rel,
                          size |-> i.size, body |-> b.html]>>
                         \o rest.sections]

\* the loop of lines 272-294
RECURSIVE Sections(_, _)
Sections(rendered, renders) ==
    IF rendered = <<>> THEN [raised |-> "none", sections |-> <<>>]
    ELSE Section(Head(rendered),
                 SectionBody(Head(rendered), renders[Head(rendered).rel]),
                 Sections(Tail(rendered), renders))

\* lines 249-294 of build_html: the parts of the document, rendered being the
\* included records, cxml the corpus text and secs the sections.  tree is
\* what build_git_tree(repo_dir) gives at line 256.
Document(tree, infos, rendered, cxml, secs) ==
    LET skipped_binary == SelectSeq(infos, LAMBDA i : i.reason = "binary")
        skipped_large == SelectSeq(infos, LAMBDA i : i.reason = "too_large")
        skipped_ignored == SelectSeq(infos, LAMBDA i : i.reason = "ignored")
        total_files == Len(rendered) + Len(skipped_binary) + Len(skipped_large)
                          + Len(skipped_ignored)
        toc == [k \in 1..Len(rendered) |->
                   [anchor |-> slugify(rendered[k].rel), rel |-> rendered[k].rel,
                    size |-> rendered[k].size]]
    IN IF tree.raised # "none" THEN Raised(tree.raised)
       ELSE IF cxml.raised # "none" THEN Raised(cxml.raised)
       ELSE IF secs.raised # "none" THEN Raised(secs.raised)
       ELSE [raised |-> "none",
             html |-> [total_files |-> total_files,
                       rendered |-> rendered,
                       skipped_binary |-> skipped_binary,
                       skipped_large |-> skipped_large,
                       skipped_ignored |-> skipped_ignored,
                       tree_text |-> tree.lines,
                       cxml_text |-> cxml.lines,
                       toc |-> toc,
                       sections |-> secs.sections]]

\* build_html(repo_url, repo_dir, head_commit, infos, minify); reads and
\* renders are what reading and highlighting each included file does
build_html(tree, infos, minify, reads, renders) ==
    Document(tree, infos, Rendered(infos),
             generate_cxml_text(infos, minify, reads),
             Sections(Rendered(infos), renders))


\* the candidates of the specification's end-to-end scenario
PipePaths == {P_README, P_SRC_A_PY, P_GIT_CONFIG, P_BIG_BIN}

\* the head of a file of the given size: its first bytes, all the letter A
TextHead(size) == [k \in 1..(IF size < MaxHead THEN size ELSE MaxHead) |-> 65]

\* what the disk can do for one tracked path during the scan
PipeEntries(max_bytes) ==
    { Entry("yes", "ok", 1, "ok", TextHead(1)),
      Entry("yes", "ok", max_bytes + SizeSlack, "ok", TextHead(max_bytes + SizeSlack)),
      Entry("yes", "ok", 1, "ok", <<0>>),
      Entry("yes", "ok", 1, "PermissionError", <<>>),
      \* deleted, or a directory (a submodule): is_file() is false
      MissingFile,
      \* below a directory that may not be searched: is_file() raises
      Unsearchable,
      \* deleted between is_file() and stat()
      Entry("yes", "FileNotFoundError", 0, "FileNotFoundError", <<>>),
      \* made unreachable between is_file() and stat()
      Entry("yes", "PermissionError", 0, "PermissionError", <<>>) }

\* the text read_text gives for a file of the model
PipeText == <<"1", " ">>

EnvOk == [m \in Modules |-> "ok"]
PipeEnvs == {[m \in Modules |-> st] : st \in {"ok", "missing", "raises"}}

\* what reading one included file does in generate_cxml_text
CxmlOutcomes(minify) ==
    {[read |-> "OSError", text |-> <<>>, env |-> EnvOk]}
        \cup {[read |-> "ok", text |-> PipeText, env |-> e] :
                 e \in (IF minify THEN PipeEnvs ELSE {EnvOk})}

\* what reading and highlighting one included file does in build_html
RenderOutcomes ==
    { [read |-> "OSError", text |-> <<>>, highlight |-> "ok"],
      [read |-> "ok", text |-> PipeText, highlight |-> "ok"],
      [read |-> "ok", text |-> PipeText, highlight |-> "Exception"] }

Init ==
    /\ run \in {[pc |-> "scan", tracked |-> S, max_bytes |-> MAX_DEFAULT_BYTES,
                 llm |-> l, minify |-> m, regular |-> {}, infos |-> <<>>,
                 exc |-> "none", failed_in |-> "none",
                 reads |-> <<>>, renders |-> <<>>, cxml |-> <<>>, html |-> <<>>] :
                    S \in SUBSET PipePaths, l \in BOOLEAN, m \in BOOLEAN}
    /\ d_in = Idle /\ d_out = Idle /\ m_in = Idle /\ m_out = Idle
    /\ s_in = <<>> /\ s_out = Idle /\ t_in = Idle /\ t_out = Idle

IncludedRels == {run.infos[k].rel : k \in {j \in DOMAIN run.infos : run.infos[j].include}}

\* line 554: infos = collect_files(repo_dir, args.max_bytes)
CollectFiles ==
    /\ run.pc = "scan"
    /\ \E disk \in [run.tracked -> PipeEntries(run.max_bytes)] :
          LET r == collect_files(run.tracked, disk, run.max_bytes)
          IN run' = IF r.raised = "none"
                    THEN [run EXCEPT !.pc = "collected", !.infos = r.infos,
                             !.regular = {rel \in run.tracked : disk[rel].is_file = "yes"}]
                    ELSE [run EXCEPT !.pc = "failed", !.exc = r.raised,
                             !.failed_in = "collect_files"]
    /\ UNCHANGED <<d_in, d_out, m_in, m_out, s_in, s_out, t_in, t_out>>

\* line 564 (--llm): cxml_text = generate_cxml_text(infos, repo_dir, minify)
GenerateCxml ==
    /\ run.pc = "collected" /\ run.llm
    /\ \E reads \in [IncludedRels -> CxmlOutcomes(run.minify)] :
          LET r == generate_cxml_text(run.infos, run.minify, reads)
          IN run' = IF r.raised = "none"
                    THEN [run EXCEPT !.pc = "assembled", !.cxml = r.lines,
                             !.reads = reads]
                    ELSE [run EXCEPT !.pc = "failed", !.exc = r.raised,
                             !.failed_in = "generate_cxml_text", !.reads = reads]
    /\ UNCHANGED <<d_in, d_out, m_in, m_out, s_in, s_out, t_in, t_out>>

\* line 571: html_out = build_html(repo_url, repo_dir, head, infos, minify)
BuildHtml ==
    /\ run.pc = "collected" /\ ~run.llm
    /\ LET tree == build_git_tree(ROOT_NAME, sorted(run.tracked))
       IN \E reads \in [IncludedRels -> CxmlOutcomes(run.minify)],
             renders \in [IncludedRels -> RenderOutcomes] :
          LET r == build_html(tree, run.infos, run.minify, reads, renders)
          IN run' = IF r.raised = "none"
                    THEN [run EXCEPT !.pc = "assembled", !.html = r.html,
                             !.cxml = r.html.cxml_text,
                             !.reads = reads, !.renders = renders]
                    ELSE [run EXCEPT !.pc = "failed", !.exc = r.raised,
                             !.failed_in = "build_html",
                             !.reads = reads, !.renders = renders]
    /\ UNCHANGED <<d_in, d_out, m_in, m_out, s_in, s_out, t_in, t_out>>

Next == CollectFiles \/ GenerateCxml \/ BuildHtml

Spec == Init /\ [][Next]_vars


-----------------------------------------------------------------------------
(* The claims about the run.                                                *)

HtmlDone == run.pc = "assembled" /\ ~run.llm

\* how often rel occurs in the four lists build_html computes
TimesCounted(rel) ==
    LET n(list) == Cardinality({k \in DOMAIN list : list[k].rel = rel})
    IN n(run.html.rendered) + n(run.html.skipped_binary)
          + n(run.html.skipped_large) + n(run.html.skipped_ignored)

\* C1 as claimed: every tracked path is in exactly one of the four lists of
\* build_html, whose lengths add up to the number of tracked paths.
C1_PartitionOfTracked ==
    HtmlDone =>
        /\ run.html.total_files = Cardinality(run.tracked)
        /\ \A rel \in run.tracked : TimesCounted(rel) = 1

\* C1 as amended: every tracked path that is a regular file when
\* collect_files tests it is in exactly one of the four lists, a tracked path
\* that is no regular file is in none, and the lengths add up to the number
\* of tracked regular files.
C1_PartitionOfRegularFiles ==
    HtmlDone =>
        /\ run.html.total_files = Cardinality(run.regular)
        /\ run.html.total_files = Len(run.infos)
        /\ \A rel \in run.regular : TimesCounted(rel) = 1
        /\ \A rel \in run.tracked \ run.regular : TimesCounted(rel) = 0

\* four tracked paths, one of them no regular file, the others in three
\* different lists
C1_Witness ==
    /\ HtmlDone
    /\ run.tracked = PipePaths
    /\ Cardinality(run.regular) = 3
    /\ run.html.total_files = 3
    /\ Len(run.html.rendered) = 1 /\ Len(run.html.skipped_large) = 1
    /\ Len(run.html.skipped_ignored) = 1

\* the lines of the corpus with the given tag
CxmlLines(tag) == SelectSeq(run.cxml, LAMBDA l : l.tag = tag)

\* the content line of the k-th document
CxmlContentOf(k) == CxmlLines("text")[k].body

\* C5: the corpus has one document element per included record and none for
\* a skipped one; the indices are 1..N in this order, the k-th document
\* carrying the path of the k-th included record; every document is closed.
C5_DocumentsIndexed ==
    run.pc = "assembled" =>
        LET inc == Rendered(run.infos)
            opens == CxmlLines("<document index>")
            sources == CxmlLines("<source>")
        IN /\ Len(opens) = Len(inc) /\ Len(sources) = Len(inc)
           /\ Len(CxmlLines("</document>")) = Len(inc)
           /\ \A k \in 1..Len(inc) :
                 opens[k].index = k /\ sources[k].body = inc[k].rel
           /\ \A k \in DOMAIN run.infos :
                 ~run.infos[k].include =>
                     \A j \in DOMAIN sources : sources[j].body # run.infos[k].rel

\* the scenario of the specification: README.md, src/a.py, .git/config and
\* big.bin of 60000 bytes with max_bytes 51200 gave two documents, README.md
\* with index 1 and src/a.py with index 2
C5_Witness ==
    /\ run.pc = "assembled" /\ run.llm
    /\ run.tracked = {P_README, P_SRC_A_PY, P_GIT_CONFIG, P_BIG_BIN}
    /\ run.max_bytes = 51200
    /\ \E k \in DOMAIN run.infos :
          /\ run.infos[k].rel = P_BIG_BIN /\ run.infos[k].size = 60000
          /\ run.infos[k].reason = "too_large"
    /\ \E k \in DOMAIN run.infos :
          run.infos[k].rel = P_GIT_CONFIG /\ run.infos[k].reason = "ignored"
    /\ Len(CxmlLines("<document index>")) = 2
    /\ CxmlLines("<document index>")[1].index = 1
    /\ CxmlLines("<source>")[1].body = P_README
    /\ CxmlLines("<document index>")[2].index = 2
    /\ CxmlLines("<source>")[2].body = P_SRC_A_PY

\* reading the included file rel failed in generate_cxml_text
ReadFailed(rel) == run.reads[rel].read # "ok"

\* the minifier responsible for the included file rel raised
MinifyFailed(rel) ==
    /\ run.minify /\ run.reads[rel].read = "ok"
    /\ StrategyFor(Suffix(rel)) \in Modules
    /\ run.reads[rel].env[StrategyFor(Suffix(rel))] = "raises"

\* every included record has its document, in order, and the corpus is closed
CxmlComplete ==
    LET inc == Rendered(run.infos)
    IN /\ Len(CxmlLines("<document index>")) = Len(inc)
       /\ Len(CxmlLines("text")) = Len(inc)
       /\ \A k \in 1..Len(inc) :
             /\ CxmlLines("<document index>")[k].index = k
             /\ CxmlLines("<source>")[k].body = inc[k].rel
       /\ run.cxml[Len(run.cxml)].tag = "</documents>"

\* C6 as claimed: a failure to read or to minify an included file makes the
\* content of its document the message 'Failed to read: ...', and the
\* serialization completes with every document whatever fails.
C6_FailureMessageInlined ==
    /\ run.failed_in # "generate_cxml_text"
    /\ run.pc = "assembled" =>
          /\ CxmlComplete
          /\ \A k \in 1..Len(Rendered(run.infos)) :
                LET rel == Rendered(run.infos)[k].rel
                IN (ReadFailed(rel) \/ MinifyFailed(rel))
                      => CxmlContentOf(k) = <<"Failed to read: ", "OSError">>

\* C6 as amended: a failure to read an included file makes the content of its
\* document the message 'Failed to read: ...'; a minifier that raises leaves
\* the text of the file, unminified, as the content (minify_code absorbs the
\* failure); in both cases the document is emitted with its index and path,
\* and the serialization completes with every document whatever fails.
C6_ReadFailureInlined ==
    /\ run.failed_in # "generate_cxml_text"
    /\ run.pc = "assembled" =>
          /\ CxmlComplete
          /\ \A k \in 1..Len(Rendered(run.infos)) :
                LET rel == Rendered(run.infos)[k].rel
                IN /\ ReadFailed(rel)
                      => CxmlContentOf(k) = <<"Failed to read: ", "OSError">>
                   /\ MinifyFailed(rel) => CxmlContentOf(k) = run.reads[rel].text

\* the first of two included files could not be read, the minifier raised on
\* the second: both documents are there, the first with the message
C6_Witness ==
    /\ run.pc = "assembled" /\ run.llm /\ run.minify
    /\ Len(Rendered(run.infos)) = 2
    /\ ReadFailed(P_README) /\ MinifyFailed(P_SRC_A_PY)
    /\ CxmlContentOf(1) = <<"Failed to read: ", "OSError">>
    /\ CxmlContentOf(2) = PipeText
    /\ run.cxml[Len(run.cxml)].tag = "</documents>"

\* reading or highlighting the included file rel failed in build_html
RenderFailed(rel) ==
    run.renders[rel].read # "ok" \/ run.renders[rel].highlight # "ok"

\* C7: build_html emits one section per included record, in their order; the
\* section of a file whose reading or highlighting failed holds an error
\* block with the failure message, the section of every other file holds its
\* highlighted text, and no such failure leaves build_html.
C7_RenderFailureIsolated ==
    /\ run.failed_in # "build_html"
    /\ HtmlDone =>
          LET inc == Rendered(run.infos)
              secs == run.html.sections
          IN /\ Len(secs) = Len(inc)
             /\ Len(run.html.toc) = Len(inc)
             /\ \A k \in 1..Len(inc) :
                   LET rel == inc[k].rel
                   IN /\ secs[k].rel = rel
                      /\ run.html.toc[k].rel = rel
                      /\ RenderFailed(rel) =>
                            /\ secs[k].body.kind = "error"
                            /\ secs[k].body.text =
                                  <<"Failed to render: ",
                                    IF run.renders[rel].read # "ok"
                                    THEN run.renders[rel].read
                                    ELSE run.renders[rel].highlight>>
                      /\ ~RenderFailed(rel) =>
                            /\ secs[k].body.kind = "highlight"
                            /\ secs[k].body.text = run.renders[rel].text

\* highlighting the first of two included files failed: its section holds
\* the error block and the section of the second its highlighted text
C7_Witness ==
    /\ HtmlDone
    /\ Len(Rendered(run.infos)) = 2
    /\ run.renders[P_README].read = "ok" /\ run.renders[P_README].highlight # "ok"
    /\ ~RenderFailed(P_SRC_A_PY)
    /\ run.html.sections[1].body.kind = "error"
    /\ run.html.sections[2].body.kind = "highlight"


-----------------------------------------------------------------------------
(* main(), lines 512-585, step by step.  The run record of the pipeline is *)
(* extended with the position of main before and after the pipeline:       *)
(*   local     is_local_repo, line 530                                      *)
(*   no_open   args.no_open                                                 *)
(*   tmpdir    a temporary directory was made (line 544)                    *)
(*   in_try    the try statement of line 552 was entered                    *)
(*   writes    the number of calls of out_path.write_text                   *)
(*   artifact  "none", "partial" or "complete": what the output file holds  *)
(*   opened    webbrowser.open was called                                   *)
(*   cleaned   the finally clause removed the temporary directory           *)
(*   returned  "none", or "0" once main executed return 0                   *)
(*   status    "running", or the exit status of the process                 *)

P_SRC_DASH_A_PY == <<"s", "r", "c", "-", "a", ".", "p", "y">>

\* the tracked paths of the runs of main
MainPaths == {P_SRC_A_PY, P_SRC_DASH_A_PY}

MainInit ==
    /\ run \in {[pc |-> "start", tracked |-> S, max_bytes |-> MAX_DEFAULT_BYTES,
                 llm |-> l, minify |-> m, regular |-> {}, infos |-> <<>>,
                 exc |-> "none", failed_in |-> "none",
                 reads |-> <<>>, renders |-> <<>>, cxml |-> <<>>, html |-> <<>>,
                 local |-> loc, no_open |-> n, tmpdir |-> FALSE, in_try |-> FALSE,
                 writes |-> 0, artifact |-> "none", opened |-> FALSE,
                 cleaned |-> FALSE, returned |-> "none", status |-> "running"] :
                    S \in SUBSET MainPaths, l \in BOOLEAN, m \in BOOLEAN,
                    loc \in BOOLEAN, n \in BOOLEAN}
    /\ d_in = Idle /\ d_out = Idle /\ m_in = Idle /\ m_out = Idle
    /\ s_in = <<>> /\ s_out = Idle /\ t_in = Idle /\ t_out = Idle

\* line 520: args = ap.parse_args().  argparse ends the process itself, with
\* status 2 on a usage error and with status 0 after --help; main does not
\* return then.
ParseArgs ==
    /\ run.pc = "start"
    /\ \E o \in {"ok", "usage", "help"} :
          run' = IF o = "ok" THEN [run EXCEPT !.pc = "parsed"]
                 ELSE [run EXCEPT !.pc = "exited", !.exc = "SystemExit",
                          !.failed_in = "parse_args",
                          !.status = IF o = "help" THEN "0" ELSE "2"]
    /\ UNCHANGED <<d_in, d_out, m_in, m_out, s_in, s_out, t_in, t_out>>

\* what acquiring the repository can do: Repo(repo_dir) for a local one (line
\* 538); mkdtemp, clone_from and Repo(repo_dir) for a URL (lines 544-548)
AcquireOutcomes(local) ==
    IF local THEN {"ok", "Repo"} ELSE {"ok", "mkdtemp", "clone_from", "Repo"}

\* lines 533-538 and 541-548: the repository is opened, after cloning it into
\* a temporary directory when the source is not a local repository
AcquireRepository ==
    /\ run.pc = "parsed"
    /\ \E o \in AcquireOutcomes(run.local) :
          run' = IF o = "ok"
                 THEN [run EXCEPT !.pc = "acquired", !.tmpdir = ~run.local]
                 ELSE [run EXCEPT !.pc = "failed", !.exc = o,
                          !.failed_in = "acquire",
                          !.tmpdir = ~run.local /\ o # "mkdtemp"]
    /\ UNCHANGED <<d_in, d_out, m_in, m_out, s_in, s_out, t_in, t_out>>

\* lines 539 and 549: head = repo.head.commit.hexsha; the try statement of
\* line 552 is entered next
ResolveHead ==
    /\ run.pc = "acquired"
    /\ \E o \in {"ok", "ValueError"} :
          run' = IF o = "ok" THEN [run EXCEPT !.pc = "scan", !.in_try = TRUE]
                 ELSE [run EXCEPT !.pc = "failed", !.exc = o, !.failed_in = "head"]
    /\ UNCHANGED <<d_in, d_out, m_in, m_out, s_in, s_out, t_in, t_out>>

\* a mutant of WriteArtifact: a failed write is swallowed and main goes on
WriteArtifactSwallowed ==
    /\ run.pc = "assembled"
    /\ \E o \in {"ok", "OSError"}, left \in {"none", "partial"} :
          run' = IF o = "ok"
                 THEN [run EXCEPT !.pc = "written", !.writes = @ + 1,
                          !.artifact = "complete"]
                 ELSE [run EXCEPT !.pc = "written", !.writes = @ + 1,
                          !.artifact = left]
    /\ UNCHANGED <<d_in, d_out, m_in, m_out, s_in, s_out, t_in, t_out>>

\* lines 566 and 573: out_path.write_text(...).  A write that fails leaves
\* no file or a part of it.
WriteArtifact ==
    /\ run.pc = "assembled"
    /\ \E o \in {"ok", "OSError"}, left \in {"none", "partial"} :
          run' = IF o = "ok"
                 THEN [run EXCEPT !.pc = "written", !.writes = @ + 1,
                          !.artifact = "complete"]
                 ELSE [run EXCEPT !.pc = "failed", !.exc = o,
                          !.failed_in = "write", !.writes = @ + 1,
                          !.artifact = left]
    /\ UNCHANGED <<d_in, d_out, m_in, m_out, s_in, s_out, t_in, t_out>>

\* lines 567 and 574: file_size = out_path.stat().st_size
StatArtifact ==
    /\ run.pc = "written"
    /\ \E o \in {"ok", "OSError"} :
          run' = IF o = "ok" THEN [run EXCEPT !.pc = "reported"]
                 ELSE [run EXCEPT !.pc = "failed", !.exc = o, !.failed_in = "stat"]
    /\ UNCHANGED <<d_in, d_out, m_in, m_out, s_in, s_out, t_in, t_out>>

\* lines 577-579: the browser is opened on the HTML file unless --no-open
OpenViewer ==
    /\ run.pc = "reported" /\ ~run.llm /\ ~run.no_open
    /\ run' = [run EXCEPT !.pc = "returning", !.opened = TRUE]
    /\ UNCHANGED <<d_in, d_out, m_in, m_out, s_in, s_out, t_in, t_out>>

\* lines 581-585: return 0, through the finally clause
ReturnZero ==
    /\ \/ run.pc = "returning"
       \/ run.pc = "reported" /\ (run.llm \/ run.no_open)
    /\ run' = [run EXCEPT !.pc = "exited", !.returned = "0", !.status = "0",
                  !.cleaned = run.tmpdir]
    /\ UNCHANGED <<d_in, d_out, m_in, m_out, s_in, s_out, t_in, t_out>>

\* an exception leaves main: through the finally clause (lines 582-585) when
\* the try statement was entered, and the interpreter ends with status 1
Unwind ==
    /\ run.pc = "failed"
    /\ run' = [run EXCEPT !.pc = "exited", !.status = "1",
                  !.cleaned = run.in_try /\ run.tmpdir]
    /\ UNCHANGED <<d_in, d_out, m_in, m_out, s_in, s_out, t_in, t_out>>

MainNext ==
    \/ ParseArgs \/ AcquireRepository \/ ResolveHead
    \/ CollectFiles \/ GenerateCxml \/ BuildHtml
    \/ WriteArtifact \/ StatArtifact \/ OpenViewer \/ ReturnZero \/ Unwind

SpecMain == MainInit /\ [][MainNext]_vars

-----------------------------------------------------------------------------
(* The claims about main.                                                   *)

\* the position main is in after each of its steps, in the order of the code
MainRank ==
    [pc \in {"start", "parsed", "acquired", "scan", "collected", "assembled",
             "written", "reported", "returning"} |->
        CASE pc = "start" -> 0
          [] pc = "parsed" -> 1
          [] pc = "acquired" -> 2
          [] pc = "scan" -> 3
          [] pc = "collected" -> 4
          [] pc = "assembled" -> 5
          [] pc = "written" -> 6
          [] pc = "reported" -> 7
          [] pc = "returning" -> 8]

\* the steps whose failure the claim names
FatalSteps == {"acquire", "head", "write"}

\* what holds in every state of a run of main
MainStateOk ==
    /\ run.writes <= 1
    /\ run.returned = "0" => run.writes = 1 /\ run.artifact = "complete"
    /\ run.opened => run.writes = 1 /\ run.artifact = "complete"
    /\ run.failed_in \in FatalSteps =>
          /\ run.pc \in {"failed", "exited"}
          /\ run.returned = "none" /\ ~run.opened
          /\ run.artifact # "complete"
          /\ run.failed_in # "write" => run.writes = 0
          /\ run.pc = "exited" => run.status = "1"

\* what holds of every step of a run of main
MainStepOk ==
    /\ run'.pc # run.pc /\ run'.pc \in DOMAIN MainRank =>
          /\ run.pc \in DOMAIN MainRank
          /\ MainRank[run'.pc] = MainRank[run.pc] + 1
    /\ run'.writes # run.writes => run.pc = "assembled"
    /\ run'.returned # run.returned => run.pc \in {"reported", "returning"}
    /\ run.pc = "failed" => run'.pc = "exited" /\ run'.status = "1"
    /\ run.pc = "exited" => run' = run

\* C11: the steps of main occur in the order acquire, resolve head, classify,
\* assemble, write; the artifact is written at most once; main returns 0 only
\* after this write has completed; when the acquisition, the head resolution
\* or the write fails, the run ends with a non-zero status and neither writes
\* the artifact afterwards nor opens the viewer.
C11_MainStepOrder == [](MainStateOk) /\ [][MainStepOk]_vars

\* a run on a cloned repository that wrote the HTML file once, opened the
\* viewer and returned 0
C11_Witness ==
    /\ run.pc = "exited" /\ run.returned = "0" /\ run.status = "0"
    /\ ~run.local /\ run.in_try /\ ~run.llm
    /\ run.writes = 1 /\ run.artifact = "complete" /\ run.opened /\ run.cleaned

-----------------------------------------------------------------------------
(* The anchors of build_html.                                               *)

\* line 289: the id attribute of a section, id="file-{anchor}"
SectionId(section) == <<"f", "i", "l", "e", "-">> \o section.anchor

\* line 265: the target of a table-of-contents link, href="#file-{anchor}"
TocTarget(item) == <<"f", "i", "l", "e", "-">> \o item.anchor

\* the section a link to the id target leads to: the first one with this id
FirstSectionWithId(target) ==
    LET secs == run.html.sections
        hits == {k \in DOMAIN secs : SectionId(secs[k]) = target}
    IN CHOOSE k \in hits : \A j \in hits : k <= j

\* C12: in the document build_html assembles, no two sections have the same
\* id, and the table-of-contents link of every included file leads to the
\* section of this file.
C12_DistinctAnchors ==
    HtmlDone =>
        LET secs == run.html.sections
            toc == run.html.toc
        IN /\ \A j, k \in DOMAIN secs :
                 j # k => SectionId(secs[j]) # SectionId(secs[k])
           /\ \A k \in DOMAIN toc :
                 secs[FirstSectionWithId(TocTarget(toc[k]))].rel = toc[k].rel

=============================================================================
